---------------------------- MODULE Spec2Model ----------------------------
(***************************************************************************)
(* A model of src/src/Color.ts: the Color value object (four validated     *)
(* channels), its channel normalizer, the numeric token parser, the        *)
(* rgb()/hsl() grammar matchers, the HSL <-> RGB converters and the hex     *)
(* codec.                                                                  *)
(*                                                                         *)
(* Numbers.  A JavaScript number is modelled as a pair <<n, d>>:           *)
(*   d >= 1  the rational n/d in lowest terms,                             *)
(*   d = 0   NaN (n = 0), +Infinity (n = 1), -Infinity (n = -1),           *)
(*   d = -1  the value `undefined` (an unset field, an omitted argument).  *)
(* Arithmetic is exact rational arithmetic; the one place where the        *)
(* program turns a non-integer number into text (toRGB's alpha) keeps      *)
(* FracDigits decimal places, as Number-to-string keeps finitely many.     *)
(*                                                                         *)
(* Strings are sequences of one-character strings.                         *)
(***************************************************************************)
EXTENDS Integers, Sequences, FiniteSets, TLC

VARIABLES
    colors,     \* Spec: the Color objects the constructor has returned
    call,       \* Spec: the call being made (NoCall when idle)
    outcome,    \* Spec: what the last finished call was and how it ended
    phase,      \* conversion specs: "start" | "text" | "hsla" | "done"
    shape,      \* conversion specs: how the input was built (keyword, tokens)
    source,     \* conversion specs: the Color being serialized (or NoColor)
    opt,        \* conversion specs: the `alpha` flag given to the serializer
    text,       \* conversion specs: the string in flight
    hsla,       \* conversion specs: the HSLAObject in flight
    result      \* conversion specs: what the factory returned or threw

vars == <<colors, call, outcome, phase, shape, source, opt, text, hsla, result>>

-----------------------------------------------------------------------------
(* Bounds of the model *)

MaxColors == 2      \* Color objects alive at once in Spec
FracDigits == 5     \* decimal places kept when a number becomes text
MaxPairs == 4       \* two-character chunks in a raw hex input

(* Program constants *)

MaxChannel == 255   \* the upper end of a channel's range
HexRadix == 16      \* the radix of parseInt and toString
HexDigits == 2      \* decimalToHex's default `digits`

-----------------------------------------------------------------------------
(* Numbers *)

NaN == <<0, 0>>
PosInf == <<1, 0>>
NegInf == <<-1, 0>>
Undefined == <<0, -1>>

Abs(n) == IF n < 0 THEN -n ELSE n

RECURSIVE GCD(_, _)
GCD(a, b) == IF b = 0 THEN a ELSE GCD(b, a % b)

\* n/d in lowest terms with a positive denominator (d # 0)
Rat(n, d) ==
    LET g == GCD(Abs(n), Abs(d))
        s == IF d < 0 THEN -1 ELSE 1
    IN  <<s * (n \div g), s * (d \div g)>>

Num(n) == <<n, 1>>

IsFinite(x) == x[2] >= 1
IsNaN(x) == x = NaN

RAdd(x, y) ==
    LET g == GCD(x[2], y[2])
    IN  Rat(x[1] * (y[2] \div g) + y[1] * (x[2] \div g), (x[2] \div g) * y[2])

RNeg(x) == <<-x[1], x[2]>>

RSub(x, y) == RAdd(x, RNeg(y))

\* cross-cancelled before multiplying
RMul(x, y) ==
    LET g1 == GCD(Abs(x[1]), y[2])
        g2 == GCD(Abs(y[1]), x[2])
    IN  Rat((x[1] \div g1) * (y[1] \div g2), (x[2] \div g2) * (y[2] \div g1))

\* y # 0
RDiv(x, y) == RMul(x, Rat(y[2], y[1]))

\* the < of two numbers: false when either is NaN
NumLt(x, y) ==
    IF IsNaN(x) \/ IsNaN(y) THEN FALSE
    ELSE IF x = NegInf THEN y # NegInf
    ELSE IF y = PosInf THEN x # PosInf
    ELSE IF x = PosInf \/ y = NegInf THEN FALSE
    ELSE x[1] * y[2] < y[1] * x[2]

NumGt(x, y) == NumLt(y, x)

\* Math.round: the nearest integer, a half rounding up; NaN and the infinities
\* are returned as they are
MathRound(x) ==
    IF ~IsFinite(x) THEN x
    ELSE Num((2 * x[1] + x[2]) \div (2 * x[2]))

RECURSIVE Pow10(_)
Pow10(k) == IF k = 0 THEN 1 ELSE 10 * Pow10(k - 1)

-----------------------------------------------------------------------------
(* Results of calls that may throw *)

OkNum(v) == [ok |-> TRUE, val |-> v, err |-> "none"]
ThrowNum(e) == [ok |-> FALSE, val |-> NaN, err |-> e]

\* an object whose four fields are still unset; also "no Color"
NoColor == [r |-> Undefined, g |-> Undefined, b |-> Undefined, a |-> Undefined]

OkColor(c) == [ok |-> TRUE, color |-> c, err |-> "none"]
ThrowColor(e) == [ok |-> FALSE, color |-> NoColor, err |-> e]

-----------------------------------------------------------------------------
(* The Color entity *)

normalizeColorValueNoRange(value) ==
    IF IsNaN(value) THEN ThrowNum("TypeError")
    ELSE LET v == MathRound(value)
         IN  IF NumLt(v, Num(0)) /\ NumGt(v, Num(MaxChannel))
             THEN ThrowNum("RangeError")
             ELSE OkNum(v)

normalizeColorValueClamp(value) ==
    IF IsNaN(value) THEN ThrowNum("TypeError")
    ELSE LET v == MathRound(value)
         IN  IF NumLt(v, Num(0)) THEN OkNum(Num(0))
             ELSE IF NumGt(v, Num(MaxChannel)) THEN OkNum(Num(MaxChannel))
             ELSE OkNum(v)

normalizeColorValue(value) ==
    IF IsNaN(value) THEN ThrowNum("TypeError")
    ELSE LET v == MathRound(value)
         IN  IF NumLt(v, Num(0)) \/ NumGt(v, Num(MaxChannel))
             THEN ThrowNum("RangeError")
             ELSE OkNum(v)

\* set r / set g / set b / set a: the field is assigned only when the
\* normalizer returned
setChannel(obj, ch, value) ==
    LET n == normalizeColorValue(value)
    IN  IF n.ok THEN [ok |-> TRUE, color |-> [obj EXCEPT ![ch] = n.val], err |-> "none"]
        ELSE [ok |-> FALSE, color |-> obj, err |-> n.err]

\* new Color(r, g, b, a): the four setters in order on a fresh object; the
\* object is returned only when all four returned
construct(r, g, b, a) ==
    LET aa == IF a = Undefined THEN Num(MaxChannel) ELSE a
        s1 == setChannel(NoColor, "r", r)
        s2 == IF s1.ok THEN setChannel(s1.color, "g", g) ELSE s1
        s3 == IF s2.ok THEN setChannel(s2.color, "b", b) ELSE s2
        s4 == IF s3.ok THEN setChannel(s3.color, "a", aa) ELSE s3
    IN  IF s4.ok THEN OkColor(s4.color) ELSE ThrowColor(s4.err)

\* new Color(...) whose argument expressions may themselves throw: they are
\* evaluated left to right and the first throw propagates
constructFrom(r, g, b, a) ==
    IF ~r.ok THEN ThrowColor(r.err)
    ELSE IF ~g.ok THEN ThrowColor(g.err)
    ELSE IF ~b.ok THEN ThrowColor(b.err)
    ELSE IF ~a.ok THEN ThrowColor(a.err)
    ELSE construct(r.val, g.val, b.val, a.val)

Channels == {"r", "g", "b", "a"}

-----------------------------------------------------------------------------
(* Strings: sequences of one-character strings *)

DecChars == <<"0", "1", "2", "3", "4", "5", "6", "7", "8", "9">>
HexLower == <<"0", "1", "2", "3", "4", "5", "6", "7", "8", "9",
              "a", "b", "c", "d", "e", "f">>
HexUpper == <<"0", "1", "2", "3", "4", "5", "6", "7", "8", "9",
              "A", "B", "C", "D", "E", "F">>

Range(s) == {s[i] : i \in 1..Len(s)}

IsWs(c) == c \in {" ", "\t"}
IsDigit(c) == c \in Range(DecChars)
IsHexDigit(c) == c \in Range(HexLower) \cup Range(HexUpper)

\* the value of a digit of radix up to 16, either letter case
DigitVal(c) ==
    IF c \in Range(HexLower)
    THEN (CHOOSE i \in 1..Len(HexLower) : HexLower[i] = c) - 1
    ELSE (CHOOSE i \in 1..Len(HexUpper) : HexUpper[i] = c) - 1

\* the first position >= i of s that holds no whitespace (Len(s)+1 if none)
RECURSIVE SkipWs(_, _)
SkipWs(s, i) == IF i <= Len(s) /\ IsWs(s[i]) THEN SkipWs(s, i + 1) ELSE i

\* the first position >= i of s that holds no decimal digit
RECURSIVE SkipDigits(_, _)
SkipDigits(s, i) == IF i <= Len(s) /\ IsDigit(s[i]) THEN SkipDigits(s, i + 1) ELSE i

\* the first position >= i of s that holds no hexadecimal digit
RECURSIVE SkipHexDigits(_, _)
SkipHexDigits(s, i) ==
    IF i <= Len(s) /\ IsHexDigit(s[i]) THEN SkipHexDigits(s, i + 1) ELSE i

\* the last position <= i of s that holds no whitespace (0 if none)
RECURSIVE BackWs(_, _)
BackWs(s, i) == IF i >= 1 /\ IsWs(s[i]) THEN BackWs(s, i - 1) ELSE i

\* String.prototype.trim
Trim(s) == SubSeq(s, SkipWs(s, 1), BackWs(s, Len(s)))

StartsWith(s, c) == Len(s) >= 1 /\ s[1] = c
EndsWith(s, c) == Len(s) >= 1 /\ s[Len(s)] = c

\* the number a run of digits of the given radix denotes (0 for the empty run)
RECURSIVE DigitsValue(_, _)
DigitsValue(s, radix) ==
    IF s = <<>> THEN 0
    ELSE DigitsValue(SubSeq(s, 1, Len(s) - 1), radix) * radix + DigitVal(s[Len(s)])

\* the digits of n >= 0 in the given radix, lower case, no leading zeros
RECURSIVE ToDigits(_, _)
ToDigits(n, radix) ==
    IF n < radix THEN <<HexLower[n + 1]>>
    ELSE ToDigits(n \div radix, radix) \o <<HexLower[(n % radix) + 1]>>

RECURSIVE PadLeft(_, _)
PadLeft(s, width) == IF Len(s) >= width THEN s ELSE PadLeft(<<"0">> \o s, width)

RECURSIVE StripZeros(_)
StripZeros(s) ==
    IF s # <<>> /\ s[Len(s)] = "0" THEN StripZeros(SubSeq(s, 1, Len(s) - 1)) ELSE s

\* Number-to-string in radix 10 of a finite number: the integer part, and the
\* fraction to FracDigits places (nearest), trailing zeros dropped
NumberToString(x) ==
    LET scale == Pow10(FracDigits)
        mag == <<Abs(x[1]), x[2]>>
        scaled == MathRound(RMul(mag, Num(scale)))[1]
        ip == ToDigits(scaled \div scale, 10)
        fp == StripZeros(PadLeft(ToDigits(scaled % scale, 10), FracDigits))
        sign == IF x[1] < 0 /\ scaled # 0 THEN <<"-">> ELSE <<>>
    IN  sign \o ip \o (IF fp = <<>> THEN <<>> ELSE <<".">> \o fp)

\* parseFloat: the longest prefix, after leading whitespace, that is a decimal
\* literal (sign, digits, point, digits); NaN when there is none
parseFloat(s) ==
    LET i0 == SkipWs(s, 1)
        neg == i0 <= Len(s) /\ s[i0] = "-"
        i1 == IF i0 <= Len(s) /\ s[i0] \in {"-", "+"} THEN i0 + 1 ELSE i0
        i2 == SkipDigits(s, i1)
        dot == i2 <= Len(s) /\ s[i2] = "."
        i3 == IF dot THEN SkipDigits(s, i2 + 1) ELSE i2
        ipart == SubSeq(s, i1, i2 - 1)
        fpart == IF dot THEN SubSeq(s, i2 + 1, i3 - 1) ELSE <<>>
        mag == Rat(DigitsValue(ipart, 10) * Pow10(Len(fpart)) + DigitsValue(fpart, 10),
                   Pow10(Len(fpart)))
    IN  IF ipart = <<>> /\ fpart = <<>> THEN NaN
        ELSE IF neg THEN RNeg(mag) ELSE mag

\* parseInt(s, 16): after leading whitespace, a sign and a 0x prefix, the
\* longest run of hexadecimal digits; NaN when that run is empty
parseInt(s) ==
    LET i0 == SkipWs(s, 1)
        neg == i0 <= Len(s) /\ s[i0] = "-"
        i1 == IF i0 <= Len(s) /\ s[i0] \in {"-", "+"} THEN i0 + 1 ELSE i0
        i2 == IF i1 + 1 <= Len(s) /\ s[i1] = "0" /\ s[i1 + 1] \in {"x", "X"}
              THEN i1 + 2 ELSE i1
        i3 == SkipHexDigits(s, i2)
        run == SubSeq(s, i2, i3 - 1)
    IN  IF run = <<>> THEN NaN
        ELSE IF neg THEN Num(-DigitsValue(run, HexRadix))
        ELSE Num(DigitsValue(run, HexRadix))

-----------------------------------------------------------------------------
(* The hex codec *)

hexToDecimal(value) ==
    LET decimal == parseInt(value)
    IN  IF IsNaN(decimal) THEN ThrowNum("Error") ELSE OkNum(decimal)

decimalToHexNoPad(value, digits) ==
    LET hex == ToDigits(value[1], HexRadix)
    IN  IF Len(hex) > digits THEN SubSeq(hex, 1, digits) ELSE hex

\* value is an integer >= 0 (a channel)
decimalToHex(value, digits) ==
    LET hex == ToDigits(value[1], HexRadix)
    IN  IF Len(hex) > digits THEN SubSeq(hex, 1, digits) ELSE PadLeft(hex, digits)

toHex(c, alpha) ==
    <<"#">> \o decimalToHex(c.r, HexDigits) \o decimalToHex(c.g, HexDigits)
            \o decimalToHex(c.b, HexDigits)
            \o (IF alpha THEN decimalToHex(c.a, HexDigits) ELSE <<>>)

fromHex(hexColor) ==
    LET t == Trim(hexColor)
        h == IF StartsWith(t, "#") THEN SubSeq(t, 2, Len(t)) ELSE t
    IN  IF Len(h) = 3
        THEN constructFrom(hexToDecimal(SubSeq(h, 1, 1)), hexToDecimal(SubSeq(h, 2, 2)),
                           hexToDecimal(SubSeq(h, 3, 3)), OkNum(Undefined))
        ELSE IF Len(h) \in {6, 8}
        THEN constructFrom(hexToDecimal(SubSeq(h, 1, 2)), hexToDecimal(SubSeq(h, 3, 4)),
                           hexToDecimal(SubSeq(h, 5, 6)),
                           IF Len(h) = 8 THEN hexToDecimal(SubSeq(h, 7, 8))
                           ELSE OkNum(Num(MaxChannel)))
        ELSE ThrowColor("Error")

-----------------------------------------------------------------------------
(* The numeric token parser and the grammar matchers *)

DegreesMax == 360   \* the scale of a hue token
PercentBase == 100  \* the divisor of a percentage

\* a capture group: undefined, or the substring it captured
NoCapture == [def |-> FALSE, str |-> <<>>]
Capture(s) == [def |-> TRUE, str |-> s]

TypeOf(c) == IF c.def THEN "string" ELSE "undefined"

NoMatch == [matched |-> FALSE, g |-> <<NoCapture, NoCapture, NoCapture, NoCapture, NoCapture>>]

\* numberPattern at position i: blanks, the captured digits with an optional
\* fraction and an optional percent sign, blanks.  Each quantifier is followed
\* by characters it cannot itself match, so backtracking finds nothing the
\* greedy scan does not.
MatchNumber(s, i) ==
    LET a == SkipWs(s, i)
        b == SkipDigits(s, a)
        f == IF b <= Len(s) /\ s[b] = "." THEN SkipDigits(s, b + 1) ELSE b
        c == IF f > b + 1 THEN f ELSE b
        d == IF c <= Len(s) /\ s[c] = "%" THEN c + 1 ELSE c
    IN  [ok |-> b > a, cap |-> SubSeq(s, a, d - 1), next |-> SkipWs(s, d)]

IsAt(s, i, c) == i <= Len(s) /\ s[i] = c

\* the element of a one-element set
The(S) == CHOOSE x \in S : TRUE

\* what the pattern captured, once the four number scans are known
MatchOf(s, hasA, n1, n2, n3, n4) ==
    LET four == IsAt(s, n3.next, ",")
        close == IF four THEN n4.next ELSE n3.next
    IN  IF /\ n1.ok /\ IsAt(s, n1.next, ",")
           /\ n2.ok /\ IsAt(s, n2.next, ",")
           /\ n3.ok
           /\ (four => n4.ok)
           /\ IsAt(s, close, ")")
        THEN [matched |-> TRUE,
              g |-> <<IF hasA THEN Capture(<<"a">>) ELSE NoCapture,
                      Capture(n1.cap), Capture(n2.cap), Capture(n3.cap),
                      IF four THEN Capture(n4.cap) ELSE NoCapture>>]
        ELSE NoMatch

\* rgbaRegExp / hslaRegExp tried at position i of s; kw is the keyword.  The
\* scan is left to right: the keyword, an optional "a", "(", three numbers
\* between commas, an optional comma and fourth number, ")".  Each scan result
\* is bound once, where the next one starts.
MatchFrom(kw, s, i) ==
    LET hasA == IsAt(s, i + Len(kw), "a")
        k == i + Len(kw) + (IF hasA THEN 1 ELSE 0)
    IN  IF i + Len(kw) - 1 <= Len(s) /\ SubSeq(s, i, i + Len(kw) - 1) = kw
           /\ IsAt(s, k, "(")
        THEN The({The({The({The({MatchOf(s, hasA, n1, n2, n3, n4) :
                n4 \in {MatchNumber(s, n3.next + 1)}}) :
                n3 \in {MatchNumber(s, n2.next + 1)}}) :
                n2 \in {MatchNumber(s, n1.next + 1)}}) :
                n1 \in {MatchNumber(s, k + 1)}})
        ELSE NoMatch

\* RegExp.prototype.exec: the match at the leftmost position that has one
Exec(kw, s) ==
    LET starts == {i \in 1..Len(s) : MatchFrom(kw, s, i).matched}
    IN  IF starts = {} THEN NoMatch
        ELSE The({MatchFrom(kw, s, i) :
                    i \in {CHOOSE i \in starts : \A k \in starts : i <= k}})

RgbKeyword == <<"r", "g", "b">>
HslKeyword == <<"h", "s", "l">>

alphaFormAgreesAlways(m) == TRUE

\* typeof match[1] === typeof match[5]
alphaFormAgrees(m) == TypeOf(m.g[1]) = TypeOf(m.g[5])

\* the tests and the scaling of parseColorNumber, given the trimmed token
\* and what parseFloat made of it
scaleColorNumber(t, parsed, max) ==
    LET number == IF EndsWith(t, "%") THEN RMul(parsed, Rat(max, PercentBase))
                  ELSE parsed
    IN  IF IsNaN(parsed) THEN ThrowNum("Error")
        ELSE IF NumLt(number, Num(0)) /\ NumGt(number, Num(max))
        THEN ThrowNum("RangeError")
        ELSE OkNum(number)

parseColorNumber(stringNumber, max) ==
    The({The({scaleColorNumber(t, parsed, max) : parsed \in {parseFloat(t)}}) :
            t \in {Trim(stringNumber)}})

\* the product of a call that may have thrown and a number
Times(res, k) == IF res.ok THEN OkNum(RMul(res.val, Num(k))) ELSE res

\* the quotient of a call that may have thrown and a number
Over(res, k) == IF res.ok THEN OkNum(RDiv(res.val, Num(k))) ELSE res

\* fromRGB once the pattern has been tried: m is what exec returned
fromRGBMatch(m) ==
    IF m.matched /\ alphaFormAgrees(m)
    THEN The({constructFrom(r, g, b, a) :
            r \in {parseColorNumber(m.g[2].str, MaxChannel)},
            g \in {parseColorNumber(m.g[3].str, MaxChannel)},
            b \in {parseColorNumber(m.g[4].str, MaxChannel)},
            a \in {IF ~m.g[5].def THEN OkNum(Num(MaxChannel))
                   ELSE Times(parseColorNumber(m.g[5].str, 1), MaxChannel)}})
    ELSE ThrowColor("Error")

fromRGB(rgbColor) == The({fromRGBMatch(m) : m \in {Exec(RgbKeyword, rgbColor)}})

-----------------------------------------------------------------------------
(* The HSL <-> RGB converters *)

hueToRGBNoWrap(p, q, t) ==
    IF NumLt(t, Rat(1, 6)) THEN RAdd(p, RMul(RMul(RSub(q, p), Num(6)), t))
    ELSE IF NumLt(t, Rat(1, 2)) THEN q
    ELSE IF NumLt(t, Rat(2, 3))
         THEN RAdd(p, RMul(RMul(RSub(q, p), RSub(Rat(2, 3), t)), Num(6)))
    ELSE p

hueToRGB(p, q, t) ==
    LET t1 == IF NumLt(t, Num(0)) THEN RAdd(t, Num(1)) ELSE t
        t2 == IF NumGt(t1, Num(1)) THEN RSub(t1, Num(1)) ELSE t1
    IN  IF NumLt(t2, Rat(1, 6)) THEN RAdd(p, RMul(RMul(RSub(q, p), Num(6)), t2))
        ELSE IF NumLt(t2, Rat(1, 2)) THEN q
        ELSE IF NumLt(t2, Rat(2, 3))
             THEN RAdd(p, RMul(RMul(RSub(q, p), RSub(Rat(2, 3), t2)), Num(6)))
        ELSE p

\* the truthiness of a number or undefined
Truthy(x) == x # Undefined /\ ~IsNaN(x) /\ x # Num(0)

fromHSLObject(o) ==
    LET q == IF NumLt(o.l, Rat(1, 2)) THEN RMul(o.l, RAdd(Num(1), o.s))
             ELSE RSub(RAdd(o.l, o.s), RMul(o.l, o.s))
        p == RSub(RMul(Num(2), o.l), q)
        grey == o.s = Num(0)
        r == IF grey THEN o.l ELSE hueToRGB(p, q, RAdd(o.h, Rat(1, 3)))
        g == IF grey THEN o.l ELSE hueToRGB(p, q, o.h)
        b == IF grey THEN o.l ELSE hueToRGB(p, q, RSub(o.h, Rat(1, 3)))
    IN  construct(RMul(r, Num(MaxChannel)), RMul(g, Num(MaxChannel)),
                  RMul(b, Num(MaxChannel)),
                  IF Truthy(o.a) THEN RMul(o.a, Num(MaxChannel)) ELSE Num(MaxChannel))

NoHsla == [h |-> Undefined, s |-> Undefined, l |-> Undefined, a |-> Undefined]

\* the object literal fromHSL builds once the pattern has been tried; NoHsla
\* when it builds none
hslaOfMatch(m) ==
    IF m.matched /\ alphaFormAgrees(m)
    THEN The({IF h.ok /\ s.ok /\ l.ok /\ a.ok
              THEN [h |-> h.val, s |-> s.val, l |-> l.val, a |-> a.val]
              ELSE NoHsla :
            h \in {Over(parseColorNumber(m.g[2].str, DegreesMax), DegreesMax)},
            s \in {parseColorNumber(m.g[3].str, 1)},
            l \in {parseColorNumber(m.g[4].str, 1)},
            a \in {IF ~m.g[5].def THEN OkNum(Num(1))
                   ELSE parseColorNumber(m.g[5].str, 1)}})
    ELSE NoHsla

\* the HSLAObject fromHSL hands to fromHSLObject; NoHsla when it hands none
fromHSLArgument(hslColor) == The({hslaOfMatch(m) : m \in {Exec(HslKeyword, hslColor)}})

fromHSL(hslColor) ==
    The({IF o # NoHsla THEN fromHSLObject(o) ELSE ThrowColor("Error") :
            o \in {fromHSLArgument(hslColor)}})

Max3(x, y, z) ==
    LET m == IF NumLt(x, y) THEN y ELSE x IN IF NumLt(m, z) THEN z ELSE m

Min3(x, y, z) ==
    LET m == IF NumLt(y, x) THEN y ELSE x IN IF NumLt(z, m) THEN z ELSE m

toHSLAObject(c) ==
    LET r == RDiv(c.r, Num(MaxChannel))
        g == RDiv(c.g, Num(MaxChannel))
        b == RDiv(c.b, Num(MaxChannel))
        max == Max3(r, g, b)
        min == Min3(r, g, b)
        l == RDiv(RAdd(max, min), Num(2))
        d == RSub(max, min)
        s == IF NumGt(l, Rat(1, 2)) THEN RDiv(d, RSub(RSub(Num(2), max), min))
             ELSE RDiv(d, RAdd(max, min))
        h6 == IF max = r
              THEN RAdd(RDiv(RSub(g, b), d), IF NumLt(g, b) THEN Num(6) ELSE Num(0))
              ELSE IF max = g THEN RAdd(RDiv(RSub(b, r), d), Num(2))
              ELSE RAdd(RDiv(RSub(r, g), d), Num(4))
    IN  IF max = min
        THEN [h |-> Num(0), s |-> Num(0), l |-> l, a |-> RDiv(c.a, Num(MaxChannel))]
        ELSE [h |-> RDiv(h6, Num(6)), s |-> s, l |-> l,
              a |-> RDiv(c.a, Num(MaxChannel))]

-----------------------------------------------------------------------------
(* The serializer *)

toRGBRawAlpha(c, alpha) ==
    RgbKeyword \o (IF alpha THEN <<"a">> ELSE <<>>) \o <<"(">>
        \o NumberToString(c.r) \o <<",", " ">>
        \o NumberToString(c.g) \o <<",", " ">>
        \o NumberToString(c.b)
        \o (IF alpha THEN <<",", " ">> \o NumberToString(c.a) ELSE <<>>)
        \o <<")">>

toRGB(c, alpha) ==
    RgbKeyword \o (IF alpha THEN <<"a">> ELSE <<>>) \o <<"(">>
        \o NumberToString(c.r) \o <<",", " ">>
        \o NumberToString(c.g) \o <<",", " ">>
        \o NumberToString(c.b)
        \o (IF alpha THEN <<",", " ">> \o NumberToString(RDiv(c.a, Num(MaxChannel)))
            ELSE <<>>)
        \o <<")">>

-----------------------------------------------------------------------------
(* Spec: Color objects under construction and channel writes *)

ColorIds == 1..MaxColors

\* values callers pass to a channel setter
SetterArgs == {NaN, PosInf, NegInf, Num(-1), Rat(-3, 5), Rat(-1, 2),
               Rat(509, 2), Rat(511, 2), Num(256)}

\* values callers pass to the constructor, per parameter: each has a value
\* in range and one that rounds out of it; the fourth may be left out
CtorArgs == <<{NaN, Num(0), Num(256)},
              {Num(-1), Rat(2, 5)},
              {Rat(1277, 5), Rat(511, 2)},
              {Undefined, Num(0), Num(256)}>>

NoCall == [op |-> "none", target |-> 0, chan |-> "r", args |-> <<>>]

NoOutcome == [op |-> "none", err |-> "none"]

NoShape == [kw |-> <<>>, tokens |-> <<>>]
NoResult == ThrowColor("none")

\* the conversion variables at rest
ConvIdle ==
    /\ phase = "idle" /\ shape = NoShape /\ source = NoColor /\ opt = FALSE
    /\ text = <<>> /\ hsla = NoHsla /\ result = NoResult

convVars == <<phase, shape, source, opt, text, hsla, result>>
objVars == <<colors, call, outcome>>

ObjIdle ==
    /\ colors = [i \in ColorIds |-> NoColor]
    /\ call = NoCall
    /\ outcome = NoOutcome

Init == ObjIdle /\ ConvIdle

\* a caller evaluates `new Color(r, g, b)` or `new Color(r, g, b, a)`
InvokeNew(i) ==
    /\ call = NoCall
    /\ colors[i] = NoColor
    /\ \E r \in CtorArgs[1], g \in CtorArgs[2], b \in CtorArgs[3], a \in CtorArgs[4] :
           call' = [op |-> "new", target |-> i, chan |-> "r", args |-> <<r, g, b, a>>]
    /\ UNCHANGED <<colors, outcome>>
    /\ UNCHANGED convVars

\* a caller evaluates `color.<chan> = value` on a Color it holds
InvokeSet(i) ==
    /\ call = NoCall
    /\ colors[i] # NoColor
    /\ \E ch \in Channels, v \in SetterArgs :
           call' = [op |-> "set", target |-> i, chan |-> ch, args |-> <<v>>]
    /\ UNCHANGED <<colors, outcome>>
    /\ UNCHANGED convVars

\* the constructor runs: the caller gets the Color, or the exception
RunNew ==
    /\ call.op = "new"
    /\ LET res == construct(call.args[1], call.args[2], call.args[3], call.args[4])
       IN  /\ colors' = IF res.ok THEN [colors EXCEPT ![call.target] = res.color]
                        ELSE colors
           /\ outcome' = [op |-> "new", err |-> res.err]
    /\ call' = NoCall
    /\ UNCHANGED convVars

\* the setter runs on the Color
RunSet ==
    /\ call.op = "set"
    /\ LET res == setChannel(colors[call.target], call.chan, call.args[1])
       IN  /\ colors' = [colors EXCEPT ![call.target] = res.color]
           /\ outcome' = [op |-> "set", err |-> res.err]
    /\ call' = NoCall
    /\ UNCHANGED convVars

Next ==
    \/ \E i \in ColorIds : InvokeNew(i)
    \/ \E i \in ColorIds : InvokeSet(i)
    \/ RunNew
    \/ RunSet

Spec == Init /\ [][Next]_vars

\* a finite value whose nearest integer lies outside [0, 255]
RoundsOutside(v) ==
    /\ IsFinite(v)
    /\ LET k == (2 * v[1] + v[2]) \div (2 * v[2]) IN k < 0 \/ k > 255

IsChannel(v) == v[2] = 1 /\ v[1] \in 0..255

\* C1: every Color the constructor has returned has four channels that are
\* integers in [0, 255], whatever constructions and channel writes (failing
\* ones included) have taken place.
C1_ChannelsInRange ==
    \A i \in ColorIds :
        colors[i] # NoColor => \A ch \in Channels : IsChannel(colors[i][ch])

\* C1 witness: a Color exists and a channel write on it has just failed for a
\* value that is not a number.
C1_Witness ==
    /\ \E i \in ColorIds : colors[i] # NoColor
    /\ outcome = [op |-> "set", err |-> "TypeError"]

\* C2: a channel write of a value that rounds outside [0, 255] ends in a
\* RangeError and writes nothing: a setter leaves the Color as it was, and a
\* constructor given such an argument returns no Color (it throws, and what
\* it throws is the RangeError unless another argument is not a number).
C2_RangeErrorWritesNothing ==
    [][ (call.op = "set" /\ RoundsOutside(call.args[1]) /\ call'.op = "none"
            => outcome'.err = "RangeError" /\ colors' = colors)
        /\ (call.op = "set" /\ call'.op = "none" /\ outcome'.err # "none"
            => colors' = colors)
        /\ (call.op = "new" /\ (\E k \in 1..4 : RoundsOutside(call.args[k]))
              /\ call'.op = "none"
            => /\ outcome'.err # "none" /\ colors' = colors
               /\ (\A k \in 1..4 : ~IsNaN(call.args[k])) => outcome'.err = "RangeError") ]_vars

\* C2 witness: a Color exists and a setter call on it has just ended in a
\* RangeError.
C2_Witness ==
    /\ \E i \in ColorIds : colors[i] # NoColor
    /\ outcome = [op |-> "set", err |-> "RangeError"]

-----------------------------------------------------------------------------
(* SpecHex: the hex codec, on serialized Colors and on raw text *)

\* the Color `new Color(r, g, b, a)` returns for integers in range
ColorOf(r, g, b, a) == construct(Num(r), Num(g), Num(b), Num(a)).color

HexSamples == {0, 10, 255}

HexSources ==
    {ColorOf(r, g, b, a) : r \in 0..MaxChannel, g \in HexSamples,
                           b \in HexSamples, a \in HexSamples}

\* two-character pieces of a raw input: hex pairs, pairs with a character that
\* is no hex digit second or first, a signed digit, a digit after a blank
HexChunks == {<<"0", "a">>, <<"F", "F">>, <<"f", "g">>, <<"g", "1">>,
              <<"-", "1">>, <<" ", "f">>}

RECURSIVE Concat(_)
Concat(ss) == IF ss = <<>> THEN <<>> ELSE Head(ss) \o Concat(Tail(ss))

RawHexInputs ==
    {pre \o Concat(body) \o tail :
        pre \in {<<>>, <<"#">>},
        body \in UNION {[1..n -> HexChunks] : n \in 0..MaxPairs},
        tail \in {<<>>, <<"f">>, <<"g">>}}

InitHex ==
    /\ ObjIdle
    /\ shape = NoShape /\ opt = FALSE /\ hsla = NoHsla /\ result = NoResult
    /\ \/ phase = "start" /\ source \in HexSources /\ text = <<>>
       \/ phase = "text" /\ source = NoColor /\ text \in RawHexInputs

\* color.toHex(alpha)
HexSerialize ==
    /\ phase = "start"
    /\ \E alpha \in BOOLEAN : opt' = alpha /\ text' = toHex(source, alpha)
    /\ phase' = "text"
    /\ UNCHANGED <<shape, source, hsla, result>>
    /\ UNCHANGED objVars

\* Color.fromHex(text)
HexParse ==
    /\ phase = "text"
    /\ result' = fromHex(text)
    /\ phase' = "done"
    /\ UNCHANGED <<shape, source, opt, text, hsla>>
    /\ UNCHANGED objVars

NextHex == HexSerialize \/ HexParse

SpecHex == InitHex /\ [][NextHex]_vars

\* C3: fromHex of the text toHex(true) produced for a Color returns a Color
\* with exactly that Color's four channels.
C3_HexRoundTrip ==
    phase = "done" /\ source # NoColor /\ opt => result = OkColor(source)

\* C3 witness: the round trip has run on a Color whose red channel needs a
\* leading zero and whose alpha is neither 0 nor 255.
C3_Witness ==
    /\ phase = "done" /\ opt /\ result.ok
    /\ source.r = Num(7) /\ source.a = Num(10)
    /\ text = <<"#", "0", "7", "f", "f", "0", "0", "0", "a">>

\* C8: fromHex returns a Color only for an input that, trimmed and without
\* its leading '#', is exactly 3, 6 or 8 characters long, all of them
\* hexadecimal digits.
C8_OnlyHexDigitsAccepted ==
    phase = "done" /\ source = NoColor /\ result.ok =>
        LET t == Trim(text)
            h == IF StartsWith(t, "#") THEN SubSeq(t, 2, Len(t)) ELSE t
        IN  Len(h) \in {3, 6, 8} /\ \A i \in 1..Len(h) : IsHexDigit(h[i])

-----------------------------------------------------------------------------
(* SpecCss: fromRGB and fromHSL, on serialized Colors and on written text *)

MaxTokens == 4      \* numeric tokens in a written rgb()/hsl() text

CssKeywords == {<<"r", "g", "b">>, <<"r", "g", "b", "a">>,
                <<"h", "s", "l">>, <<"h", "s", "l", "a">>,
                <<"R", "G", "B">>, <<"H", "s", "l", "a">>}

CssTokens == {<<"0">>, <<"2", "5", "5">>, <<"5", "0", "%">>, <<"1", "0", "0", "%">>,
              <<"3", "6", "0">>, <<"0", ".", "5">>, <<" ", "1", " ">>}

CssSeparators == {<<",">>, <<",", " ">>}

RECURSIVE Join(_, _)
Join(tokens, sep) ==
    IF Len(tokens) <= 1 THEN Concat(tokens)
    ELSE Head(tokens) \o sep \o Join(Tail(tokens), sep)

\* keyword(token, token, ...)
Written(kw, tokens, sep) == kw \o <<"(">> \o Join(tokens, sep) \o <<")">>

CssSamples == {0, 7, 255}

CssSources ==
    {ColorOf(r, g, b, a) : r \in CssSamples, g \in CssSamples,
                           b \in CssSamples, a \in 0..MaxChannel}

InitCss ==
    /\ ObjIdle
    /\ opt = FALSE /\ hsla = NoHsla /\ result = NoResult
    /\ \/ phase = "start" /\ source \in CssSources /\ text = <<>> /\ shape = NoShape
       \/ /\ phase = "text" /\ source = NoColor
          /\ \E kw \in CssKeywords, sep \in CssSeparators :
             \E tokens \in UNION {[1..n -> CssTokens] : n \in 2..MaxTokens} :
                 /\ shape = [kw |-> kw, tokens |-> tokens]
                 /\ text = Written(kw, tokens, sep)

\* color.toRGB(alpha)
RgbSerialize ==
    /\ phase = "start"
    /\ \E alpha \in BOOLEAN : opt' = alpha /\ text' = toRGB(source, alpha)
    /\ phase' = "text"
    /\ UNCHANGED <<shape, source, hsla, result>>
    /\ UNCHANGED objVars

\* Color.fromRGB(text)
ParseRGB ==
    /\ phase = "text"
    /\ result' = fromRGB(text)
    /\ phase' = "parsedRGB"
    /\ UNCHANGED <<shape, source, opt, text, hsla>>
    /\ UNCHANGED objVars

\* Color.fromHSL(text); hsla records the object it handed to fromHSLObject
ParseHSL ==
    /\ phase = "text"
    /\ hsla' = fromHSLArgument(text)
    /\ result' = fromHSL(text)
    /\ phase' = "parsedHSL"
    /\ UNCHANGED <<shape, source, opt, text>>
    /\ UNCHANGED objVars

NextCss == RgbSerialize \/ ParseRGB \/ ParseHSL

SpecCss == InitCss /\ [][NextCss]_vars

\* C4: fromRGB of the text toRGB(true) produced for a Color returns exactly
\* its four channels, and of the text toRGB(false) produced, its red, green
\* and blue with alpha 255.
C4_RgbRoundTrip ==
    phase = "parsedRGB" /\ source # NoColor =>
        result = OkColor([source EXCEPT !.a = IF opt THEN source.a ELSE Num(MaxChannel)])

\* C4 witness: the round trip has run with alpha on a Color whose alpha
\* fraction 128/255 has no finite decimal expansion.
C4_Witness ==
    /\ phase = "parsedRGB" /\ opt /\ result.ok
    /\ source.a = Num(128) /\ source.r = Num(7)
    /\ Len(text) > 18

\* C5: fromRGB and fromHSL return a Color only when the keyword's alpha
\* marker and a fourth token are both there or both missing.
C5_AlphaMarkerMatchesTokens ==
    phase \in {"parsedRGB", "parsedHSL"} /\ shape # NoShape /\ result.ok =>
        (Len(shape.kw) = 4 <=> Len(shape.tokens) >= 4)

\* C5 witness: a bare keyword with four tokens has been parsed and refused.
C5_Witness ==
    /\ phase = "parsedRGB" /\ ~result.ok
    /\ shape.kw = RgbKeyword /\ Len(shape.tokens) = 4

UpperLetters == <<"R", "G", "B", "A", "H", "S", "L">>
LowerLetters == <<"r", "g", "b", "a", "h", "s", "l">>

ToLowerChar(c) ==
    IF c \in Range(UpperLetters)
    THEN LowerLetters[CHOOSE i \in 1..Len(UpperLetters) : UpperLetters[i] = c]
    ELSE c

ToLower(s) == [i \in 1..Len(s) |-> ToLowerChar(s[i])]

\* C9: a text whose keyword differs only in letter case from one the parser
\* accepts is accepted too, with the same four channels.
C9_KeywordCaseInsensitive ==
    /\ phase = "parsedRGB" /\ shape # NoShape /\ fromRGB(ToLower(text)).ok
           => result = fromRGB(ToLower(text))
    /\ phase = "parsedHSL" /\ shape # NoShape /\ fromHSL(ToLower(text)).ok
           => result = fromHSL(ToLower(text))

InUnit(x) == IsFinite(x) /\ ~NumLt(x, Num(0)) /\ ~NumGt(x, Num(1))

\* C10: whenever fromHSL returns a Color, the object it handed to the
\* converter has hue in [0,1) and saturation, lightness and alpha in [0,1].
C10_HslArgumentInRange ==
    phase = "parsedHSL" /\ result.ok =>
        /\ InUnit(hsla.h) /\ hsla.h # Num(1)
        /\ InUnit(hsla.s) /\ InUnit(hsla.l) /\ InUnit(hsla.a)

-----------------------------------------------------------------------------
(* SpecHsl: toHSLAObject and fromHSLObject *)

HslSamples == {0, 1, 2, 3, 50, 51, 100, 127, 128, 129, 200, 250, 252, 253, 254, 255}

HslSources ==
    {ColorOf(r, g, b, a) : r \in HslSamples, g \in HslSamples,
                           b \in HslSamples, a \in {0, 128, 255}}

\* HSLAObjects callers write themselves; alpha may be left out
RawHslas ==
    {[h |-> h, s |-> s, l |-> l, a |-> a] :
        h \in {Num(0), Rat(1, 3), Rat(1, 2), Rat(5, 6)},
        s \in {Num(0), Rat(1, 2), Num(1)},
        l \in {Num(0), Rat(1, 4), Rat(1, 2), Num(1)},
        a \in {Undefined, Num(0), Rat(1, 2), Num(1)}}

InitHsl ==
    /\ ObjIdle
    /\ shape = NoShape /\ opt = FALSE /\ text = <<>> /\ result = NoResult
    /\ \/ phase = "start" /\ source \in HslSources /\ hsla = NoHsla
       \/ phase = "hsla" /\ source = NoColor /\ hsla \in RawHslas

\* color.toHSLAObject()
ToHSLA ==
    /\ phase = "start"
    /\ hsla' = toHSLAObject(source)
    /\ phase' = "hsla"
    /\ UNCHANGED <<shape, source, opt, text, result>>
    /\ UNCHANGED objVars

\* Color.fromHSLObject(hsla)
FromHSLA ==
    /\ phase = "hsla"
    /\ result' = fromHSLObject(hsla)
    /\ phase' = "done"
    /\ UNCHANGED <<shape, source, opt, text, hsla>>
    /\ UNCHANGED objVars

NextHsl == ToHSLA \/ FromHSLA

SpecHsl == InitHsl /\ [][NextHsl]_vars

\* C6: the Color fromHSLObject returns has alpha round(a * 255) whenever the
\* object carries an alpha a, a = 0 included, and 255 only when it carries none.
C6_AlphaScaled ==
    phase = "done" /\ result.ok =>
        result.color.a = IF hsla.a = Undefined THEN Num(MaxChannel)
                         ELSE MathRound(RMul(hsla.a, Num(MaxChannel)))

Near(x, y) == x[2] = 1 /\ y[2] = 1 /\ Abs(x[1] - y[1]) <= 1

\* C7: fromHSLObject of a Color's toHSLAObject returns a Color whose red,
\* green and blue each differ from the original's by at most 1.
C7_HslRoundTrip ==
    phase = "done" /\ source # NoColor =>
        /\ result.ok
        /\ Near(result.color.r, source.r)
        /\ Near(result.color.g, source.g)
        /\ Near(result.color.b, source.b)

\* C7 witness: the round trip has run on a chromatic Color whose hue lies in
\* the last sixth of the circle (red the largest channel, green below blue).
C7_Witness ==
    /\ phase = "done" /\ result.ok
    /\ source.r = Num(255) /\ source.g = Num(1) /\ source.b = Num(128)
    /\ NumGt(hsla.h, Rat(5, 6))

=============================================================================
